---- MODULE Spec2Model ----
(***************************************************************************)
(* A model of pkg/llm/llm.go: provider dispatch (New), prompt construction *)
(* (CreateMessageContent) and the response pipeline (GenerateLLMResponse,  *)
(* cleanResponse, ValidateJSON).  A Go string is the sequence of its code  *)
(* points (valid UTF-8 is assumed), so that every character the code       *)
(* inspects is visible to the model.                                       *)
(***************************************************************************)
EXTENDS Integers, Sequences, FiniteSets, TLC

\* ------------------------------------------------------------- strings

Empty == << >>

\* A code point is written as the character itself when it is printable
\* ASCII, by the escapes "\t" "\n" "\f" "\r" of TLA+, and otherwise by its name
\* "U+XXXX" (upper-case hex, four digits or more).  The grave accent (backtick,
\* U+0060) is written by its name: the TLA+ lexer does not accept that
\* character inside a string literal.
BT == "U+0060"

\* the code points 0x20 to 0x7E, in order
Ascii ==
    <<" ", "!", "\"", "#", "$", "%", "&", "'", "(", ")", "*", "+", ",", "-", ".", "/",
      "0", "1", "2", "3", "4", "5", "6", "7", "8", "9", ":", ";", "<", "=", ">", "?",
      "@", "A", "B", "C", "D", "E", "F", "G", "H", "I", "J", "K", "L", "M", "N", "O",
      "P", "Q", "R", "S", "T", "U", "V", "W", "X", "Y", "Z", "[", "\\", "]", "^", "_",
      BT, "a", "b", "c", "d", "e", "f", "g", "h", "i", "j", "k", "l", "m", "n", "o",
      "p", "q", "r", "s", "t", "u", "v", "w", "x", "y", "z", "{", "|", "}", "~">>

UpperHex == <<"0", "1", "2", "3", "4", "5", "6", "7", "8", "9", "A", "B", "C", "D", "E", "F">>

LowerHex == <<"0", "1", "2", "3", "4", "5", "6", "7", "8", "9", "a", "b", "c", "d", "e", "f">>

\* n in upper-case hex with at least w digits, as one name
RECURSIVE HexName(_, _)
HexName(n, w) ==
    IF n < 16 /\ w <= 1 THEN UpperHex[n + 1]
    ELSE HexName(n \div 16, w - 1) \o UpperHex[(n % 16) + 1]

\* the largest code point, U+10FFFF
MaxRune == 17 * 65536 - 1

\* the character with code point n
Chr(n) ==
    CASE n \in 32..126 -> Ascii[n - 31]
      [] n = 9 -> "\t"
      [] n = 10 -> "\n"
      [] n = 12 -> "\f"
      [] n = 13 -> "\r"
      [] OTHER -> "U+" \o HexName(n, 4)

\* the code point of character c
Ord(c) ==
    IF \E n \in 32..126 : Ascii[n - 31] = c
    THEN CHOOSE n \in 32..126 : Ascii[n - 31] = c
    ELSE CHOOSE n \in 0..MaxRune : Chr(n) = c

Fence == <<BT, BT, BT>>

JsonTag == <<"j", "s", "o", "n">>

\* s[i..] starts with p
HasPrefixAt(s, i, p) ==
    /\ i + Len(p) - 1 <= Len(s)
    /\ \A k \in 1..Len(p) : s[i + k - 1] = p[k]

Drop(s, n) == SubSeq(s, n + 1, Len(s))

\* The white space of unicode.IsSpace: tab, line feed, vertical tab, form
\* feed, carriage return, space, U+0085, U+00A0, and the characters with the
\* White_Space property above Latin-1.
SpaceChars ==
    {Chr(n) : n \in (9..13) \cup {32, 133, 160, 5760, 8232, 8233, 8239, 8287, 12288}
                        \cup (8192..8202)}

\* unicode.IsSpace, the predicate strings.TrimSpace trims by
IsSpace(c) == c \in SpaceChars

RECURSIVE TrimLeft(_)
TrimLeft(s) ==
    IF s # Empty /\ IsSpace(Head(s)) THEN TrimLeft(Tail(s)) ELSE s

RECURSIVE TrimRight(_)
TrimRight(s) ==
    IF s # Empty /\ IsSpace(s[Len(s)]) THEN TrimRight(SubSeq(s, 1, Len(s) - 1)) ELSE s

\* strings.TrimSpace
TrimSpace(s) == TrimRight(TrimLeft(s))

\* ------------------------------------------------------- cleanResponse

\* Length of the match of the pattern (line 115: an anchored fence with an
\* optional json tag, or a fence anywhere) that starts at index i of s,
\* 0 when there is none.  "^" matches at the beginning of the text only; the
\* first alternative is preferred and its optional group is greedy.
FenceMatchLenUnanchored(s, i) ==
    IF ~HasPrefixAt(s, i, Fence) THEN 0
    ELSE IF HasPrefixAt(s, i + 3, JsonTag) THEN 7
    ELSE 3

FenceMatchLen(s, i) ==
    IF ~HasPrefixAt(s, i, Fence) THEN 0
    ELSE IF i = 1 /\ HasPrefixAt(s, 4, JsonTag) THEN 7
    ELSE 3

\* regexp.ReplaceAllString(input, ""): successive leftmost non-overlapping
\* matches are deleted, scanning left to right from index i.
RECURSIVE ReplaceAllFrom(_, _)
ReplaceAllFrom(s, i) ==
    IF i > Len(s) THEN Empty
    ELSE IF FenceMatchLen(s, i) > 0 THEN ReplaceAllFrom(s, i + FenceMatchLen(s, i))
    ELSE <<s[i]>> \o ReplaceAllFrom(s, i + 1)

cleanResponse(input) == TrimSpace(ReplaceAllFrom(input, 1))

\* ------------------------------------------------------- encoding/json

Digits == {"0", "1", "2", "3", "4", "5", "6", "7", "8", "9"}

HexDigits == Digits \cup {"a", "b", "c", "d", "e", "f", "A", "B", "C", "D", "E", "F"}

\* the four whitespace characters of the JSON grammar
IsJSONSpace(c) == c \in {" ", "\n", "\t", "\r"}

\* the characters below 0x20
ControlChars == {Chr(n) : n \in 0..31}

\* c < 0x20: such a character may not appear raw inside a JSON string
IsControl(c) == c \in ControlChars

RECURSIVE SkipWS(_, _)
SkipWS(s, i) ==
    IF i <= Len(s) /\ IsJSONSpace(s[i]) THEN SkipWS(s, i + 1) ELSE i

\* The element of a one-element set.  TLC evaluates an operator's arguments
\* by name; a value bound by a set constructor is evaluated once.
OneOf(S) == CHOOSE x \in S : TRUE

Fail == [ok |-> FALSE, pos |-> 0, val |-> [t |-> "none"]]

\* the character a one-letter escape stands for
Unescape(e) ==
    CASE e = "n" -> "\n"
      [] e = "t" -> "\t"
      [] e = "r" -> "\r"
      [] e = "f" -> "\f"
      [] e = "b" -> Chr(8)
      [] OTHER -> e

\* the value of a hex digit
HexVal(c) == CHOOSE v \in 0..15 : c = UpperHex[v + 1] \/ c = LowerHex[v + 1]

\* getu4: the number a \uXXXX escape at index i of s writes, -1 when s[i..]
\* does not start with such an escape
GetU4(s, i) ==
    IF /\ i + 5 <= Len(s)
       /\ s[i] = "\\"
       /\ s[i + 1] = "u"
       /\ \A k \in 2..5 : s[i + k] \in HexDigits
    THEN 4096 * HexVal(s[i + 2]) + 256 * HexVal(s[i + 3])
             + 16 * HexVal(s[i + 4]) + HexVal(s[i + 5])
    ELSE -1

\* utf16.IsSurrogate
IsSurrogate(r) == r \in 55296..57343

\* U+FFFD, unicode.ReplacementChar
ReplacementChar == 16 * 4096 - 3

\* utf16.DecodeRune: the code point of a surrogate pair, U+FFFD when the two
\* numbers are not a high surrogate followed by a low one
DecodeRune(r1, r2) ==
    IF r1 \in 55296..56319 /\ r2 \in 56320..57343
    THEN (r1 - 55296) * 1024 + (r2 - 56320) + 65536
    ELSE ReplacementChar

\* What the \uXXXX escape at index i decodes to and how many characters of s
\* it takes: a surrogate takes the escape that follows when the two form a
\* pair, and is replaced by U+FFFD otherwise.
UnicodeEscape(s, i) ==
    IF ~IsSurrogate(GetU4(s, i)) THEN [c |-> Chr(GetU4(s, i)), n |-> 6]
    ELSE IF DecodeRune(GetU4(s, i), GetU4(s, i + 6)) # ReplacementChar
         THEN [c |-> Chr(DecodeRune(GetU4(s, i), GetU4(s, i + 6))), n |-> 12]
    ELSE [c |-> Chr(ReplacementChar), n |-> 6]

\* The body of a string literal from index i (just after the opening quote),
\* with acc the characters decoded so far.
RECURSIVE ScanString(_, _, _)
ScanString(s, i, acc) ==
    IF i > Len(s) THEN Fail
    ELSE IF s[i] = "\"" THEN [ok |-> TRUE, pos |-> i + 1, val |-> [t |-> "str", s |-> acc]]
    ELSE IF s[i] = "\\" THEN
        IF i + 1 > Len(s) THEN Fail
        ELSE IF s[i + 1] \in {"\"", "\\", "/", "b", "f", "n", "r", "t"}
             THEN ScanString(s, i + 2, Append(acc, Unescape(s[i + 1])))
        ELSE IF GetU4(s, i) >= 0
             THEN OneOf({ScanString(s, i + u.n, Append(acc, u.c)) :
                             u \in {UnicodeEscape(s, i)}})
        ELSE Fail
    ELSE IF IsControl(s[i]) THEN Fail
    ELSE ScanString(s, i + 1, Append(acc, s[i]))

RECURSIVE SkipDigits(_, _)
SkipDigits(s, i) ==
    IF i <= Len(s) /\ s[i] \in Digits THEN SkipDigits(s, i + 1) ELSE i

\* -? (0 | [1-9][0-9]*) (. [0-9]+)? ([eE] [+-]? [0-9]+)?  from index i:
\* the index just after the number, 0 when there is no number at i.
ScanNumber(s, i) ==
    LET a == IF i <= Len(s) /\ s[i] = "-" THEN i + 1 ELSE i
        b == IF a > Len(s) \/ s[a] \notin Digits THEN 0
             ELSE IF s[a] = "0" THEN a + 1
             ELSE SkipDigits(s, a)
        c == IF b = 0 THEN 0
             ELSE IF b <= Len(s) /\ s[b] = "."
                  THEN (IF SkipDigits(s, b + 1) = b + 1 THEN 0 ELSE SkipDigits(s, b + 1))
             ELSE b
        d == IF c # 0 /\ c <= Len(s) /\ s[c] \in {"e", "E"}
             THEN (IF c + 1 <= Len(s) /\ s[c + 1] \in {"+", "-"} THEN c + 2 ELSE c + 1)
             ELSE 0
    IN  IF c = 0 THEN 0
        ELSE IF d = 0 THEN c
        ELSE IF SkipDigits(s, d) = d THEN 0
        ELSE SkipDigits(s, d)

RECURSIVE ParseValue(_, _)
RECURSIVE ParseMembers(_, _, _)
RECURSIVE ParseElems(_, _, _)

\* after a member: a comma and more members, or the closing brace
MemberSep(s, e, acc) ==
    IF e > Len(s) THEN Fail
    ELSE IF s[e] = "," THEN ParseMembers(s, e + 1, acc)
    ELSE IF s[e] = "}" THEN [ok |-> TRUE, pos |-> e + 1,
                             val |-> [t |-> "obj", members |-> acc]]
    ELSE Fail

\* the member's value v has been parsed
MemberDone(s, key, v, acc) ==
    IF ~v.ok THEN Fail
    ELSE OneOf({MemberSep(s, e, a) :
                    e \in {SkipWS(s, v.pos)},
                    a \in {Append(acc, [k |-> key.val.s, v |-> v.val])}})

\* the colon at index c, then the member's value
MemberValue(s, key, c, acc) ==
    IF c <= Len(s) /\ s[c] = ":"
    THEN OneOf({MemberDone(s, key, v, acc) : v \in {ParseValue(s, c + 1)}})
    ELSE Fail

\* the member's key, a string literal at index j
MemberKey(s, j, acc) ==
    IF j <= Len(s) /\ s[j] = "\""
    THEN OneOf({IF key.ok
                THEN OneOf({MemberValue(s, key, c, acc) : c \in {SkipWS(s, key.pos)}})
                ELSE Fail : key \in {ScanString(s, j + 1, << >>)}})
    ELSE Fail

\* "key" : value  members of an object, from index i, up to the closing brace
ParseMembers(s, i, acc) == OneOf({MemberKey(s, j, acc) : j \in {SkipWS(s, i)}})

\* after an element: a comma and more elements, or the closing bracket
ElemSep(s, e, acc) ==
    IF e > Len(s) THEN Fail
    ELSE IF s[e] = "," THEN ParseElems(s, e + 1, acc)
    ELSE IF s[e] = "]" THEN [ok |-> TRUE, pos |-> e + 1,
                             val |-> [t |-> "arr", elems |-> acc]]
    ELSE Fail

ElemDone(s, v, acc) ==
    IF ~v.ok THEN Fail
    ELSE OneOf({ElemSep(s, e, a) : e \in {SkipWS(s, v.pos)}, a \in {Append(acc, v.val)}})

\* the elements of an array, from index i, up to the closing bracket
ParseElems(s, i, acc) == OneOf({ElemDone(s, v, acc) : v \in {ParseValue(s, i)}})

\* the value that starts at index j, which is not whitespace
ValueAt(s, j) ==
    IF j > Len(s) THEN Fail
    ELSE IF s[j] = "{" THEN
        OneOf({IF k <= Len(s) /\ s[k] = "}"
               THEN [ok |-> TRUE, pos |-> k + 1, val |-> [t |-> "obj", members |-> << >>]]
               ELSE ParseMembers(s, k, << >>) : k \in {SkipWS(s, j + 1)}})
    ELSE IF s[j] = "[" THEN
        OneOf({IF k <= Len(s) /\ s[k] = "]"
               THEN [ok |-> TRUE, pos |-> k + 1, val |-> [t |-> "arr", elems |-> << >>]]
               ELSE ParseElems(s, k, << >>) : k \in {SkipWS(s, j + 1)}})
    ELSE IF s[j] = "\"" THEN ScanString(s, j + 1, << >>)
    ELSE IF HasPrefixAt(s, j, <<"n", "u", "l", "l">>)
         THEN [ok |-> TRUE, pos |-> j + 4, val |-> [t |-> "null"]]
    ELSE IF HasPrefixAt(s, j, <<"t", "r", "u", "e">>)
         THEN [ok |-> TRUE, pos |-> j + 4, val |-> [t |-> "bool"]]
    ELSE IF HasPrefixAt(s, j, <<"f", "a", "l", "s", "e">>)
         THEN [ok |-> TRUE, pos |-> j + 5, val |-> [t |-> "bool"]]
    ELSE OneOf({IF n # 0 THEN [ok |-> TRUE, pos |-> n, val |-> [t |-> "num"]]
                ELSE Fail : n \in {ScanNumber(s, j)}})

\* One JSON value starting at index i (leading whitespace allowed):
\* [ok, pos, val] with pos the index just after the value.
ParseValue(s, i) == OneOf({ValueAt(s, j) : j \in {SkipWS(s, i)}})

\* The whole text as one JSON value, surrounding whitespace allowed.
ParseDocument(s) ==
    OneOf({IF r.ok /\ SkipWS(s, r.pos) > Len(s) THEN r ELSE Fail : r \in {ParseValue(s, 1)}})

\* json.Valid
Valid(s) == ParseDocument(s).ok

\* The case folding under which encoding/json compares an object key with a
\* field name: an upper-case ASCII letter folds to its lower-case letter, and
\* so do the two other characters whose simple fold is an ASCII letter, U+017F
\* (long s) and U+212A (Kelvin sign).
Lower(c) ==
    IF \E n \in 65..90 : Chr(n) = c THEN Chr(32 + CHOOSE n \in 65..90 : Chr(n) = c)
    ELSE IF c = Chr(383) THEN "s"
    ELSE IF c = Chr(8490) THEN "k"
    ELSE c

\* An object key selects a struct field when it equals the field's json name
\* up to case (encoding/json matches field names case-insensitively).
FieldMatches(key, name) ==
    /\ Len(key) = Len(name)
    /\ \A k \in 1..Len(name) : Lower(key[k]) = Lower(name[k])

HeadersName == <<"h", "e", "a", "d", "e", "r", "s">>

BodyName == <<"b", "o", "d", "y">>

\* The zero value of JSONResponse: a nil map and an empty string.  A map is
\* a set of <<key, value>> pairs with at most one pair per key.
ZeroResponse == [err |-> FALSE, hdrNil |-> TRUE, Headers |-> {}, Body |-> Empty]

\* Decoding the members of the headers object into map[string]string: a
\* string is stored, null stores the zero string, any other value is an
\* UnmarshalTypeError (decoding goes on and the zero string is stored).
MapStore(st, m) ==
    [st EXCEPT !.err = st.err \/ m.v.t \notin {"str", "null"},
               !.Headers = {p \in st.Headers : p[1] # m.k}
                               \cup {<<m.k, IF m.v.t = "str" THEN m.v.s ELSE Empty>>}]

RECURSIVE DecodeMap(_, _, _)
DecodeMap(members, i, st) ==
    IF i > Len(members) THEN st
    ELSE OneOf({DecodeMap(members, i + 1, st2) : st2 \in {MapStore(st, members[i])}})

\* Decoding one member of the top-level object into the struct.
DecodeField(st, m) ==
    IF FieldMatches(m.k, HeadersName) THEN
        (CASE m.v.t = "null" -> [st EXCEPT !.hdrNil = TRUE, !.Headers = {}]
           [] m.v.t = "obj" -> DecodeMap(m.v.members, 1, [st EXCEPT !.hdrNil = FALSE])
           [] OTHER -> [st EXCEPT !.err = TRUE])
    ELSE IF FieldMatches(m.k, BodyName) THEN
        (CASE m.v.t = "null" -> st
           [] m.v.t = "str" -> [st EXCEPT !.Body = m.v.s]
           [] OTHER -> [st EXCEPT !.err = TRUE])
    ELSE st

RECURSIVE DecodeStruct(_, _, _)
DecodeStruct(members, i, st) ==
    IF i > Len(members) THEN st
    ELSE OneOf({DecodeStruct(members, i + 1, st2) : st2 \in {DecodeField(st, members[i])}})

\* json.Unmarshal(jsonBytes, &resp) on a syntactically valid document: null
\* leaves resp untouched, an object is decoded field by field, anything else
\* is an UnmarshalTypeError.
Unmarshal(val) ==
    CASE val.t = "null" -> ZeroResponse
      [] val.t = "obj" -> DecodeStruct(val.members, 1, ZeroResponse)
      [] OTHER -> [ZeroResponse EXCEPT !.err = TRUE]

\* The "required" tag of go-playground/validator: a map must be non-nil, a
\* string must differ from the zero string.
RequiredMapSkipped(isNil) == TRUE

RequiredMap(isNil) == ~isNil

RequiredStringSkipped(str) == TRUE

RequiredString(str) == str # Empty

\* validate.Struct(resp) = nil
StructValid(resp) == RequiredMap(resp.hdrNil) /\ RequiredString(resp.Body)

NotValidJSON == "input is not valid JSON"

ErrUnmarshal == "error unmarshalling JSON"

ErrValidation == "validation error"

\* ValidateJSON: "nil" or the message of the error it returns
ValidateJSON(jsonStr) ==
    IF ~Valid(jsonStr) THEN NotValidJSON
    ELSE OneOf({IF resp.err THEN ErrUnmarshal
                ELSE IF ~StructValid(resp) THEN ErrValidation
                ELSE "nil" : resp \in {Unmarshal(ParseDocument(jsonStr).val)}})

\* ------------------------------------------------------------- inputs

Quote == <<"\"">>

Str(chars) == Quote \o chars \o Quote

\* {"a":"b"}
HdrAB == <<"{">> \o Str(<<"a">>) \o <<":">> \o Str(<<"b">>) \o <<"}">>

\* the values tried for the headers member ("absent": no such member)
HeaderVals == {<<"absent">>, <<"n", "u", "l", "l">>, <<"{", "}">>, HdrAB,
               Str(<<"a">>), <<"{">> \o Str(<<"a">>) \o <<":", "1", "}">>}

\* the values tried for the body member
BodyVals == {<<"absent">>, <<"n", "u", "l", "l">>, Str(Empty), Str(<<"x">>),
             <<"1">>, Str(<<"a">> \o Fence \o <<"b">>), Str(Fence)}

Member(name, value) ==
    IF value = <<"absent">> THEN << >> ELSE <<Str(name) \o <<":">> \o value>>

RECURSIVE Join(_)
Join(parts) ==
    IF parts = << >> THEN Empty
    ELSE IF Len(parts) = 1 THEN parts[1]
    ELSE parts[1] \o <<",">> \o Join(Tail(parts))

Doc(h, b) == <<"{">> \o Join(Member(HeadersName, h) \o Member(BodyName, b)) \o <<"}">>

ObjectDocs == {Doc(h, b) : h \in HeaderVals, b \in BodyVals}

\* {"headers":{"a":"b"},"body":"x"}: the key body, its first letter escaped
EscapedKeyDoc ==
    <<"{">> \o Str(HeadersName) \o <<":">> \o HdrAB \o <<",">>
        \o Str(<<"\\", "u", "0", "0", "6", "2", "o", "d", "y">>) \o <<":">> \o Str(<<"x">>)
        \o <<"}">>

\* the key headers with U+017F (long s) for its last letter, and the key body
FoldedKeyDoc ==
    <<"{">> \o Str(<<"h", "e", "a", "d", "e", "r", Chr(383)>>) \o <<":", "{", "}", ",">>
        \o Str(BodyName) \o <<":">> \o Str(<<"x">>) \o <<"}">>

OtherDocs == {Empty,
              <<"n", "o", "t", " ", "j", "s", "o", "n">>,
              <<"n", "u", "l", "l">>,
              <<"[", "]">>,
              <<"{">> \o Str(<<"H", "e", "a", "d", "e", "r", "s">>) \o <<":">> \o HdrAB
                  \o <<",">> \o Str(<<"B", "O", "D", "Y">>) \o <<":">> \o Str(<<"x">>) \o <<"}">>,
              Doc(HdrAB, Str(<<"x">>)) \o <<"}">>,
              <<"{">> \o Str(HeadersName) \o <<":">> \o HdrAB \o <<",", "}">>,
              EscapedKeyDoc,
              FoldedKeyDoc,
              Doc(HdrAB, Str(<<"a", Chr(1), "b">>)),
              Doc(HdrAB, Str(<<"\\", "u", "d", "8", "3", "d", "\\", "u", "d", "e", "0", "0">>))}

Docs == ObjectDocs \cup OtherDocs

\* fence and whitespace wrappers a model puts around a document: <<before, after>>
Wraps == {<<Empty, Empty>>,
          <<Fence \o JsonTag \o <<"\n">>, <<"\n">> \o Fence>>,
          <<Fence \o <<"\n">>, <<"\n">> \o Fence \o <<"\n">>>>,
          <<Fence \o JsonTag, Fence>>,
          <<<<" ", "\n">>, <<"\n">>>>,
          <<<<Chr(11)>>, <<Chr(160), "\r">>>>,
          <<<<"x">> \o Fence \o JsonTag \o <<"\n">>, <<"\n">> \o Fence>>}

\* the contents a first choice may carry
Contents == {Empty} \cup {w[1] \o d \o w[2] : w \in Wraps, d \in Docs}

GoodDoc == Doc(HdrAB, Str(<<"x">>))

\* the contents of the choices after the first
LaterContents == {Empty, GoodDoc}

\* at most this many choices in one response
MaxChoices == 2

\* at most this many calls of GenerateLLMResponse in one behaviour
MaxCalls == 2

RECURSIVE LaterChoices(_)
LaterChoices(n) ==
    IF n = 0 THEN {<< >>}
    ELSE LaterChoices(n - 1)
         \cup {Append(t, c) : t \in {x \in LaterChoices(n - 1) : Len(x) = n - 1},
                              c \in LaterContents}

ChoiceLists ==
    {<< >>} \cup {<<c>> \o t : c \in Contents, t \in LaterChoices(MaxChoices - 1)}

\* what model.GenerateContent may return as its *llms.ContentResponse
NilResponse == [isNil |-> TRUE, Choices |-> << >>]

Responses == {NilResponse} \cup {[isNil |-> FALSE, Choices |-> cs] : cs \in ChoiceLists}

\* causes of a failed invocation
TransportErrors == {"connection refused"}

\* what GenerateContent may return next to a non-nil error
FailedResponses == {NilResponse, [isNil |-> FALSE, Choices |-> <<GoodDoc>>]}

\* ctx.Err() of a done context
CtxError(c) == IF c = "canceled" THEN "context canceled" ELSE "context deadline exceeded"

\* ------------------------------------------------- GenerateLLMResponse

NoError == [kind |-> "nil", detail |-> "nil"]

\* fmt.Errorf("contentGenerationError: %s", err)
ContentGenerationError(cause) == [kind |-> "contentGenerationError", detail |-> cause]

\* errors.New("emptyLLMResponse: ...")
EmptyLLMResponse(what) == [kind |-> "emptyLLMResponse", detail |-> what]

\* fmt.Errorf("invalidJSONResponse: %s", err)
InvalidJSONResponse(cause) == [kind |-> "invalidJSONResponse", detail |-> cause]

ValidationFailureByKind(resp, verr) ==
    [result |-> resp,
     err |-> IF verr = NotValidJSON THEN [kind |-> "malformedJSON", detail |-> verr]
             ELSE InvalidJSONResponse(verr),
     called |-> <<"cleanResponse", "ValidateJSON">>]

\* What is returned with the cleaned string when ValidateJSON rejects it.
ValidationFailure(resp, verr) == [result |-> resp, err |-> InvalidJSONResponse(verr),
                                  called |-> <<"cleanResponse", "ValidateJSON">>]

CleanAndValidateDropping(content) ==
    IF ValidateJSON(cleanResponse(content)) # "nil"
    THEN ValidationFailure(Empty, ValidateJSON(cleanResponse(content)))
    ELSE [result |-> cleanResponse(content), err |-> NoError,
          called |-> <<"cleanResponse", "ValidateJSON">>]

\* Lines 83-88: clean the content, validate it, return the cleaned string.
CleanAndValidate(content) ==
    OneOf({OneOf({IF verr # "nil" THEN ValidationFailure(resp, verr)
                  ELSE [result |-> resp, err |-> NoError,
                        called |-> <<"cleanResponse", "ValidateJSON">>] :
                      verr \in {ValidateJSON(resp)}}) :
               resp \in {cleanResponse(content)}})

RECURSIVE FirstNonEmpty(_)
FirstNonEmpty(choices) ==
    IF choices = << >> THEN Empty
    ELSE IF Head(choices) # Empty THEN Head(choices)
    ELSE FirstNonEmpty(Tail(choices))

ExtractAnyChoice(response) ==
    IF response.isNil
    THEN [result |-> Empty, err |-> EmptyLLMResponse("response is nil"), called |-> << >>]
    ELSE IF Len(response.Choices) = 0
    THEN [result |-> Empty, err |-> EmptyLLMResponse("no choices available"),
          called |-> << >>]
    ELSE IF FirstNonEmpty(response.Choices) = Empty
    THEN [result |-> Empty, err |-> EmptyLLMResponse("content of first choice is empty"),
          called |-> << >>]
    ELSE CleanAndValidate(FirstNonEmpty(response.Choices))

\* Lines 73-82: the three unusable responses, checked in this order.
Extract(response) ==
    IF response.isNil
    THEN [result |-> Empty, err |-> EmptyLLMResponse("response is nil"), called |-> << >>]
    ELSE IF Len(response.Choices) = 0
    THEN [result |-> Empty, err |-> EmptyLLMResponse("no choices available"),
          called |-> << >>]
    ELSE OneOf({IF content = Empty
                THEN [result |-> Empty,
                      err |-> EmptyLLMResponse("content of first choice is empty"),
                      called |-> << >>]
                ELSE CleanAndValidate(content) : content \in {response.Choices[1]}})

AfterGenerateContentIgnoringError(response, merr) == Extract(response)

\* Lines 70-88: what GenerateLLMResponse returns once GenerateContent has
\* returned (response, merr).
AfterGenerateContent(response, merr) ==
    IF merr # "nil"
    THEN [result |-> Empty, err |-> ContentGenerationError(merr), called |-> << >>]
    ELSE Extract(response)

VARIABLES
    pc,          \* "idle", "inflight", "returned", "done"
    ctx,         \* the caller's context: "active", "canceled", "deadline"
    response,    \* what GenerateContent returned
    merr,        \* the error GenerateContent returned, "nil" for none
    aborted,     \* the invocation was ended by the context
    calls,       \* calls of GenerateLLMResponse so far
    invocations, \* calls of model.GenerateContent so far
    result,      \* the string GenerateLLMResponse returned
    err,         \* the error GenerateLLMResponse returned
    called,      \* the helpers the call ran after the invocation
    \* New
    newCalls,    \* calls of New so far
    provider,    \* config.Provider of the last call
    initReturned,\* what the initializer the last call invoked returned
    lastInits,   \* the initializers the last call invoked
    initLog,     \* the initializers invoked so far
    netCalls,    \* network calls made so far
    client,      \* the llms.Model the last call returned
    newErr,      \* the error the last call returned
    \* CreateMessageContent
    msgPc,       \* "idle", "done"
    msgProvider, \* the provider argument
    systemPrompt,\* cfg.SystemPrompt
    userPrompt,  \* the formatted user prompt
    messages,    \* the returned []llms.MessageContent
    msgErr       \* the returned error

genVars == <<pc, ctx, response, merr, aborted, calls, invocations, result, err, called>>

newVars == <<newCalls, provider, initReturned, lastInits, initLog, netCalls, client, newErr>>

msgVars == <<msgPc, msgProvider, systemPrompt, userPrompt, messages, msgErr>>

vars == <<genVars, newVars, msgVars>>

InitGen ==
    /\ pc = "idle"
    /\ ctx = "active"
    /\ response = NilResponse
    /\ merr = "nil"
    /\ aborted = FALSE
    /\ calls = 0
    /\ invocations = 0
    /\ result = Empty
    /\ err = NoError
    /\ called = << >>

\* The context handed to model.GenerateContent (line 65).
CtxPassed == ctx

\* Lines 63-69: GenerateLLMResponse is entered and calls GenerateContent,
\* where it blocks.  The caller's context may already be done.
Invoke ==
    /\ pc \in {"idle", "done"}
    /\ calls < MaxCalls
    /\ \E c \in {"active", "canceled", "deadline"} : ctx' = c
    /\ pc' = "inflight"
    /\ calls' = calls + 1
    /\ invocations' = invocations + 1
    /\ response' = NilResponse
    /\ merr' = "nil"
    /\ aborted' = FALSE
    /\ result' = Empty
    /\ err' = NoError
    /\ called' = << >>
    /\ UNCHANGED <<newVars, msgVars>>

\* The caller cancels the context, or its deadline passes, while the call is
\* blocked in GenerateContent (nothing reads the context after that).
CtxCancel ==
    /\ pc = "inflight"
    /\ ctx = "active"
    /\ \E c \in {"canceled", "deadline"} : ctx' = c
    /\ UNCHANGED <<pc, response, merr, aborted, calls, invocations, result, err, called>>
    /\ UNCHANGED <<newVars, msgVars>>

\* GenerateContent returns a response and no error.  The model is whatever
\* llms.Model the caller passed, and lines 64-88 never read the context: the
\* client may answer whether or not the context is done.
BackendRespond ==
    /\ pc = "inflight"
    /\ \E r \in Responses : response' = r
    /\ merr' = "nil"
    /\ pc' = "returned"
    /\ UNCHANGED <<ctx, aborted, calls, invocations, result, err, called>>
    /\ UNCHANGED <<newVars, msgVars>>

\* GenerateContent returns an error of the transport or the backend, with
\* whatever response; again the context plays no part.
BackendFail ==
    /\ pc = "inflight"
    /\ \E e \in TransportErrors : merr' = e
    /\ \E r \in FailedResponses : response' = r
    /\ pc' = "returned"
    /\ UNCHANGED <<ctx, aborted, calls, invocations, result, err, called>>
    /\ UNCHANGED <<newVars, msgVars>>

\* GenerateContent gives up the invocation because the context it was handed
\* is done, and returns that context's error.
BackendAbort ==
    /\ pc = "inflight"
    /\ CtxPassed # "active"
    /\ merr' = CtxError(CtxPassed)
    /\ response' = NilResponse
    /\ aborted' = TRUE
    /\ pc' = "returned"
    /\ UNCHANGED <<ctx, calls, invocations, result, err, called>>
    /\ UNCHANGED <<newVars, msgVars>>

FinishWithRetry ==
    /\ pc = "returned"
    /\ IF merr # "nil" /\ invocations = calls
       THEN /\ pc' = "inflight"
            /\ invocations' = invocations + 1
            /\ merr' = "nil"
            /\ UNCHANGED <<ctx, response, aborted, calls, result, err, called>>
       ELSE /\ \E ret \in {AfterGenerateContent(response, merr)} :
                   /\ result' = ret.result
                   /\ err' = ret.err
                   /\ called' = ret.called
            /\ pc' = "done"
            /\ UNCHANGED <<ctx, response, merr, aborted, calls, invocations>>
    /\ UNCHANGED <<newVars, msgVars>>

\* Lines 70-88: GenerateLLMResponse returns.
Finish ==
    /\ pc = "returned"
    /\ \E ret \in {AfterGenerateContent(response, merr)} :
           /\ result' = ret.result
           /\ err' = ret.err
           /\ called' = ret.called
    /\ pc' = "done"
    /\ UNCHANGED <<ctx, response, merr, aborted, calls, invocations>>
    /\ UNCHANGED <<newVars, msgVars>>

\* ------------------------------------------------------------------ New

\* the provider names New is called with: the six it supports, the empty
\* string, case variants and an unknown name
ProviderNames == {"openai", "googleai", "gcp-vertex", "anthropic", "cohere", "ollama",
                  "", "OpenAI", "OLLAMA", "azure"}

\* at most this many calls of New in one behaviour
MaxNewCalls == 2

\* What an initializer (initOpenAIClient, ...) may do: it returns a client or
\* an error, and it may contact the backend.
InitOutcomes == {[ok |-> TRUE, net |-> 0], [ok |-> TRUE, net |-> 1],
                 [ok |-> FALSE, net |-> 0], [ok |-> FALSE, net |-> 1]}

\* the nil llms.Model
NilClient == [by |-> "nil"]

\* the (llms.Model, error) pair an initializer returns
InitializerReturn(init, o) ==
    IF o.ok THEN [client |-> [by |-> init], err |-> "nil"]
    ELSE [client |-> NilClient, err |-> "initialization failed"]

NoInitializer == "none"

DispatchWithDefault(p) ==
    CASE p = "openai" -> "initOpenAIClient"
      [] p = "googleai" -> "initGoogleAIClient"
      [] p = "gcp-vertex" -> "initVertexClient"
      [] p = "anthropic" -> "initAnthropicClient"
      [] p = "cohere" -> "initCohereClient"
      [] p = "ollama" -> "initOllamaClient"
      [] OTHER -> "initOpenAIClient"

\* The switch of New (lines 44-59): the initializer a provider name selects.
Dispatch(p) ==
    CASE p = "openai" -> "initOpenAIClient"
      [] p = "googleai" -> "initGoogleAIClient"
      [] p = "gcp-vertex" -> "initVertexClient"
      [] p = "anthropic" -> "initAnthropicClient"
      [] p = "cohere" -> "initCohereClient"
      [] p = "ollama" -> "initOllamaClient"
      [] OTHER -> NoInitializer

InitNew ==
    /\ newCalls = 0
    /\ provider = ""
    /\ initReturned = [client |-> NilClient, err |-> "nil"]
    /\ lastInits = << >>
    /\ initLog = << >>
    /\ netCalls = 0
    /\ client = NilClient
    /\ newErr = "nil"

\* New(ctx, config): lines 43-60.
New ==
    /\ newCalls < MaxNewCalls
    /\ \E p \in ProviderNames, o \in InitOutcomes :
           /\ provider' = p
           /\ IF Dispatch(p) = NoInitializer
              THEN /\ client' = NilClient
                   /\ newErr' = "unsupported llm provider"
                   /\ UNCHANGED <<initReturned, initLog, netCalls>>
                   /\ lastInits' = << >>
              ELSE /\ initReturned' = InitializerReturn(Dispatch(p), o)
                   /\ client' = InitializerReturn(Dispatch(p), o).client
                   /\ newErr' = InitializerReturn(Dispatch(p), o).err
                   /\ lastInits' = <<Dispatch(p)>>
                   /\ initLog' = Append(initLog, Dispatch(p))
                   /\ netCalls' = netCalls + o.net
    /\ newCalls' = newCalls + 1
    /\ UNCHANGED <<genVars, msgVars>>

\* ------------------------------------------------- CreateMessageContent

\* what httputil.DumpRequest(r, true) gives for the requests tried: an error
\* (the body could not be read), or the request in its wire form, which is
\* the request line "METHOD URI HTTP/1.1", the Host line, the other headers,
\* an empty line and the body. The requests are GET / without a body, and
\* PUT /f with the body "hi " and with a body of U+00E9, the format
\* character U+00AD and a double quote (five bytes).
Dumps == {[ok |-> FALSE, text |-> Empty],
          [ok |-> TRUE,
           text |-> <<"G", "E", "T", " ", "/", " ", "H", "T", "T", "P", "/", "1", ".", "1",
                     "\r", "\n", "H", "o", "s", "t", ":", " ", "a", ".", "i", "o", "\r",
                     "\n", "\r", "\n">>],
          [ok |-> TRUE,
           text |-> <<"P", "U", "T", " ", "/", "f", " ", "H", "T", "T", "P", "/", "1", ".",
                     "1", "\r", "\n", "H", "o", "s", "t", ":", " ", "a", ".", "i", "o",
                     "\r", "\n", "C", "o", "n", "t", "e", "n", "t", "-", "L", "e", "n",
                     "g", "t", "h", ":", " ", "3", "\r", "\n", "\r", "\n", "h", "i", " ">>],
          [ok |-> TRUE,
           text |-> <<"P", "U", "T", " ", "/", "f", " ", "H", "T", "T", "P", "/", "1", ".",
                     "1", "\r", "\n", "H", "o", "s", "t", ":", " ", "a", ".", "i", "o",
                     "\r", "\n", "C", "o", "n", "t", "e", "n", "t", "-", "L", "e", "n",
                     "g", "t", "h", ":", " ", "5", "\r", "\n", "\r", "\n", Chr(233),
                     Chr(173), "\"">>]}

SystemPrompts == {Empty, <<"s", "y", "s">>}

\* cfg.UserPrompt: formats with one %s, without a verb, with two verbs and an
\* escaped percent sign, with the other verbs a string takes, with flags,
\* width, precision and argument indexes, and with malformed directives
UserPrompts == {<<"R", ":", " ", "%", "s">>,
                <<"h", "i">>,
                <<"%", "s", "%", "%", "%", "s">>,
                <<"%", "v">>,
                <<"%", "#", "v">>,
                <<"%", "q">>,
                <<"%", "x">>,
                <<"%", "#", " ", "X">>,
                <<"%", "T">>,
                <<"%", "d">>,
                <<"%", "3", "0", "s", "|">>,
                <<"%", "-", "3", "0", "s", "|">>,
                <<"%", "0", "1", "2", ".", "3", "s">>,
                <<"5", "0", "%", " ", "s", "u", "r", "e", ":", " ", "%", "s">>,
                <<"%", "[", "1", "]", "s", "=", "%", "[", "1", "]", "s">>,
                <<"%", "[", "2", "]", "s">>,
                <<"%", "*", "s">>,
                <<"%", ".", "*", "s">>,
                <<"1", "0", "0", "%">>}

MsgProviders == {"openai", "anthropic", "ollama", "cohere", "googleai", "gcp-vertex",
                 "", "OpenAI", "azure"}

\* -- fmt.Sprintf(format, a) with one operand, a string

\* The flags, width and precision of one directive (fmt.fmtFlags, wid, prec).
NoFlags == [sharp |-> FALSE, zero |-> FALSE, plus |-> FALSE, minus |-> FALSE,
            space |-> FALSE, sharpV |-> FALSE,
            wid |-> 0, widPresent |-> FALSE, prec |-> 0, precPresent |-> FALSE]

\* writePadding(n): zeros when the zero flag is set and the minus flag is not
WritePadding(n, fl) == [k \in 1..n |-> IF fl.zero /\ ~fl.minus THEN "0" ELSE " "]

\* pad, padString: up to the width, counted in code points, on the left
\* unless the minus flag is set
Pad(str, fl) ==
    IF ~fl.widPresent \/ fl.wid = 0 THEN str
    ELSE IF ~fl.minus THEN WritePadding(fl.wid - Len(str), fl) \o str
    ELSE str \o WritePadding(fl.wid - Len(str), fl)

\* truncateString: at most prec code points
Truncate(str, fl) ==
    IF fl.precPresent /\ fl.prec < Len(str) THEN SubSeq(str, 1, fl.prec) ELSE str

\* fmtS
FmtS(str, fl) == Pad(Truncate(str, fl), fl)

\* the UTF-8 encoding of code point n
UTF8(n) ==
    IF n < 128 THEN <<n>>
    ELSE IF n < 2048 THEN <<192 + (n \div 64), 128 + (n % 64)>>
    ELSE IF n < 65536
         THEN <<224 + (n \div 4096), 128 + ((n \div 64) % 64), 128 + (n % 64)>>
    ELSE <<240 + (n \div 262144), 128 + ((n \div 4096) % 64),
           128 + ((n \div 64) % 64), 128 + (n % 64)>>

\* the bytes of a string
RECURSIVE Bytes(_)
Bytes(str) == IF str = Empty THEN << >> ELSE UTF8(Ord(Head(str))) \o Bytes(Tail(str))

\* the encoding of the first length bytes of b, from byte k on
RECURSIVE HexBytes(_, _, _, _, _)
HexBytes(b, k, length, fl, digits) ==
    IF k > length THEN Empty
    ELSE (IF fl.space /\ k > 1
          THEN <<" ">> \o (IF fl.sharp THEN <<"0", digits[17]>> ELSE Empty)
          ELSE Empty)
         \o <<digits[(b[k] \div 16) + 1], digits[(b[k] % 16) + 1]>>
         \o HexBytes(b, k + 1, length, fl, digits)

\* fmtSbx: the string in hex, two digits a byte; digits[17] is x or X
FmtSbx(str, fl, digits) ==
    LET b == Bytes(str)
        length == IF fl.precPresent /\ fl.prec < Len(b) THEN fl.prec ELSE Len(b)
        width == IF fl.space THEN (IF fl.sharp THEN 4 * length ELSE 2 * length) + length - 1
                 ELSE IF fl.sharp THEN 2 * length + 2
                 ELSE 2 * length
        padding == IF fl.widPresent /\ fl.wid > width
                   THEN WritePadding(fl.wid - width, fl) ELSE Empty
    IN  IF length = 0 THEN (IF fl.widPresent THEN WritePadding(fl.wid, fl) ELSE Empty)
        ELSE (IF ~fl.minus THEN padding ELSE Empty)
             \o (IF fl.sharp THEN <<"0", digits[17]>> ELSE Empty)
             \o HexBytes(b, 1, length, fl, digits)
             \o (IF fl.minus THEN padding ELSE Empty)

\* n in lower-case hex with exactly w digits
RECURSIVE HexLower(_, _)
HexLower(n, w) ==
    IF w = 0 THEN Empty ELSE HexLower(n \div 16, w - 1) \o <<LowerHex[(n % 16) + 1]>>

\* The code points strconv.IsPrint accepts, as ranges <<first, last>>: the
\* letters, marks, numbers, punctuation and symbols of Unicode 15.0 (general
\* categories L, M, N, P, S) and the ASCII space.
PrintRanges ==
    {<<32, 126>>, <<161, 172>>, <<174, 887>>, <<890, 895>>, <<900, 906>>, <<908, 908>>,
     <<910, 929>>, <<931, 1327>>, <<1329, 1366>>, <<1369, 1418>>, <<1421, 1423>>,
     <<1425, 1479>>, <<1488, 1514>>, <<1519, 1524>>, <<1542, 1563>>, <<1565, 1756>>,
     <<1758, 1805>>, <<1808, 1866>>, <<1869, 1969>>, <<1984, 2042>>, <<2045, 2093>>,
     <<2096, 2110>>, <<2112, 2139>>, <<2142, 2142>>, <<2144, 2154>>, <<2160, 2190>>,
     <<2200, 2273>>, <<2275, 2435>>, <<2437, 2444>>, <<2447, 2448>>, <<2451, 2472>>,
     <<2474, 2480>>, <<2482, 2482>>, <<2486, 2489>>, <<2492, 2500>>, <<2503, 2504>>,
     <<2507, 2510>>, <<2519, 2519>>, <<2524, 2525>>, <<2527, 2531>>, <<2534, 2558>>,
     <<2561, 2563>>, <<2565, 2570>>, <<2575, 2576>>, <<2579, 2600>>, <<2602, 2608>>,
     <<2610, 2611>>, <<2613, 2614>>, <<2616, 2617>>, <<2620, 2620>>, <<2622, 2626>>,
     <<2631, 2632>>, <<2635, 2637>>, <<2641, 2641>>, <<2649, 2652>>, <<2654, 2654>>,
     <<2662, 2678>>, <<2689, 2691>>, <<2693, 2701>>, <<2703, 2705>>, <<2707, 2728>>,
     <<2730, 2736>>, <<2738, 2739>>, <<2741, 2745>>, <<2748, 2757>>, <<2759, 2761>>,
     <<2763, 2765>>, <<2768, 2768>>, <<2784, 2787>>, <<2790, 2801>>, <<2809, 2815>>,
     <<2817, 2819>>, <<2821, 2828>>, <<2831, 2832>>, <<2835, 2856>>, <<2858, 2864>>,
     <<2866, 2867>>, <<2869, 2873>>, <<2876, 2884>>, <<2887, 2888>>, <<2891, 2893>>,
     <<2901, 2903>>, <<2908, 2909>>, <<2911, 2915>>, <<2918, 2935>>, <<2946, 2947>>,
     <<2949, 2954>>, <<2958, 2960>>, <<2962, 2965>>, <<2969, 2970>>, <<2972, 2972>>,
     <<2974, 2975>>, <<2979, 2980>>, <<2984, 2986>>, <<2990, 3001>>, <<3006, 3010>>,
     <<3014, 3016>>, <<3018, 3021>>, <<3024, 3024>>, <<3031, 3031>>, <<3046, 3066>>,
     <<3072, 3084>>, <<3086, 3088>>, <<3090, 3112>>, <<3114, 3129>>, <<3132, 3140>>,
     <<3142, 3144>>, <<3146, 3149>>, <<3157, 3158>>, <<3160, 3162>>, <<3165, 3165>>,
     <<3168, 3171>>, <<3174, 3183>>, <<3191, 3212>>, <<3214, 3216>>, <<3218, 3240>>,
     <<3242, 3251>>, <<3253, 3257>>, <<3260, 3268>>, <<3270, 3272>>, <<3274, 3277>>,
     <<3285, 3286>>, <<3293, 3294>>, <<3296, 3299>>, <<3302, 3311>>, <<3313, 3315>>,
     <<3328, 3340>>, <<3342, 3344>>, <<3346, 3396>>, <<3398, 3400>>, <<3402, 3407>>,
     <<3412, 3427>>, <<3430, 3455>>, <<3457, 3459>>, <<3461, 3478>>, <<3482, 3505>>,
     <<3507, 3515>>, <<3517, 3517>>, <<3520, 3526>>, <<3530, 3530>>, <<3535, 3540>>,
     <<3542, 3542>>, <<3544, 3551>>, <<3558, 3567>>, <<3570, 3572>>, <<3585, 3642>>,
     <<3647, 3675>>, <<3713, 3714>>, <<3716, 3716>>, <<3718, 3722>>, <<3724, 3747>>,
     <<3749, 3749>>, <<3751, 3773>>, <<3776, 3780>>, <<3782, 3782>>, <<3784, 3790>>,
     <<3792, 3801>>, <<3804, 3807>>, <<3840, 3911>>, <<3913, 3948>>, <<3953, 3991>>,
     <<3993, 4028>>, <<4030, 4044>>, <<4046, 4058>>, <<4096, 4293>>, <<4295, 4295>>,
     <<4301, 4301>>, <<4304, 4680>>, <<4682, 4685>>, <<4688, 4694>>, <<4696, 4696>>,
     <<4698, 4701>>, <<4704, 4744>>, <<4746, 4749>>, <<4752, 4784>>, <<4786, 4789>>,
     <<4792, 4798>>, <<4800, 4800>>, <<4802, 4805>>, <<4808, 4822>>, <<4824, 4880>>,
     <<4882, 4885>>, <<4888, 4954>>, <<4957, 4988>>, <<4992, 5017>>, <<5024, 5109>>,
     <<5112, 5117>>, <<5120, 5759>>, <<5761, 5788>>, <<5792, 5880>>, <<5888, 5909>>,
     <<5919, 5942>>, <<5952, 5971>>, <<5984, 5996>>, <<5998, 6000>>, <<6002, 6003>>,
     <<6016, 6109>>, <<6112, 6121>>, <<6128, 6137>>, <<6144, 6157>>, <<6159, 6169>>,
     <<6176, 6264>>, <<6272, 6314>>, <<6320, 6389>>, <<6400, 6430>>, <<6432, 6443>>,
     <<6448, 6459>>, <<6464, 6464>>, <<6468, 6509>>, <<6512, 6516>>, <<6528, 6571>>,
     <<6576, 6601>>, <<6608, 6618>>, <<6622, 6683>>, <<6686, 6750>>, <<6752, 6780>>,
     <<6783, 6793>>, <<6800, 6809>>, <<6816, 6829>>, <<6832, 6862>>, <<6912, 6988>>,
     <<6992, 7038>>, <<7040, 7155>>, <<7164, 7223>>, <<7227, 7241>>, <<7245, 7304>>,
     <<7312, 7354>>, <<7357, 7367>>, <<7376, 7418>>, <<7424, 7957>>, <<7960, 7965>>,
     <<7968, 8005>>, <<8008, 8013>>, <<8016, 8023>>, <<8025, 8025>>, <<8027, 8027>>,
     <<8029, 8029>>, <<8031, 8061>>, <<8064, 8116>>, <<8118, 8132>>, <<8134, 8147>>,
     <<8150, 8155>>, <<8157, 8175>>, <<8178, 8180>>, <<8182, 8190>>, <<8208, 8231>>,
     <<8240, 8286>>, <<8304, 8305>>, <<8308, 8334>>, <<8336, 8348>>, <<8352, 8384>>,
     <<8400, 8432>>, <<8448, 8587>>, <<8592, 9254>>, <<9280, 9290>>, <<9312, 11123>>,
     <<11126, 11157>>, <<11159, 11507>>, <<11513, 11557>>, <<11559, 11559>>, <<11565, 11565>>,
     <<11568, 11623>>, <<11631, 11632>>, <<11647, 11670>>, <<11680, 11686>>, <<11688, 11694>>,
     <<11696, 11702>>, <<11704, 11710>>, <<11712, 11718>>, <<11720, 11726>>, <<11728, 11734>>,
     <<11736, 11742>>, <<11744, 11869>>, <<11904, 11929>>, <<11931, 12019>>, <<12032, 12245>>,
     <<12272, 12283>>, <<12289, 12351>>, <<12353, 12438>>, <<12441, 12543>>, <<12549, 12591>>,
     <<12593, 12686>>, <<12688, 12771>>, <<12784, 12830>>, <<12832, 42124>>, <<42128, 42182>>,
     <<42192, 42539>>, <<42560, 42743>>, <<42752, 42954>>, <<42960, 42961>>, <<42963, 42963>>,
     <<42965, 42969>>, <<42994, 43052>>, <<43056, 43065>>, <<43072, 43127>>, <<43136, 43205>>,
     <<43214, 43225>>, <<43232, 43347>>, <<43359, 43388>>, <<43392, 43469>>, <<43471, 43481>>,
     <<43486, 43518>>, <<43520, 43574>>, <<43584, 43597>>, <<43600, 43609>>, <<43612, 43714>>,
     <<43739, 43766>>, <<43777, 43782>>, <<43785, 43790>>, <<43793, 43798>>, <<43808, 43814>>,
     <<43816, 43822>>, <<43824, 43883>>, <<43888, 44013>>, <<44016, 44025>>, <<44032, 55203>>,
     <<55216, 55238>>, <<55243, 55291>>, <<63744, 64109>>, <<64112, 64217>>, <<64256, 64262>>,
     <<64275, 64279>>, <<64285, 64310>>, <<64312, 64316>>, <<64318, 64318>>, <<64320, 64321>>,
     <<64323, 64324>>, <<64326, 64450>>, <<64467, 64911>>, <<64914, 64967>>, <<64975, 64975>>,
     <<65008, 65049>>, <<65056, 65106>>, <<65108, 65126>>, <<65128, 65131>>, <<65136, 65140>>,
     <<65142, 65276>>, <<65281, 65470>>, <<65474, 65479>>, <<65482, 65487>>, <<65490, 65495>>,
     <<65498, 65500>>, <<65504, 65510>>, <<65512, 65518>>, <<65532, 65533>>, <<65536, 65547>>,
     <<65549, 65574>>, <<65576, 65594>>, <<65596, 65597>>, <<65599, 65613>>, <<65616, 65629>>,
     <<65664, 65786>>, <<65792, 65794>>, <<65799, 65843>>, <<65847, 65934>>, <<65936, 65948>>,
     <<65952, 65952>>, <<66000, 66045>>, <<66176, 66204>>, <<66208, 66256>>, <<66272, 66299>>,
     <<66304, 66339>>, <<66349, 66378>>, <<66384, 66426>>, <<66432, 66461>>, <<66463, 66499>>,
     <<66504, 66517>>, <<66560, 66717>>, <<66720, 66729>>, <<66736, 66771>>, <<66776, 66811>>,
     <<66816, 66855>>, <<66864, 66915>>, <<66927, 66938>>, <<66940, 66954>>, <<66956, 66962>>,
     <<66964, 66965>>, <<66967, 66977>>, <<66979, 66993>>, <<66995, 67001>>, <<67003, 67004>>,
     <<67072, 67382>>, <<67392, 67413>>, <<67424, 67431>>, <<67456, 67461>>, <<67463, 67504>>,
     <<67506, 67514>>, <<67584, 67589>>, <<67592, 67592>>, <<67594, 67637>>, <<67639, 67640>>,
     <<67644, 67644>>, <<67647, 67669>>, <<67671, 67742>>, <<67751, 67759>>, <<67808, 67826>>,
     <<67828, 67829>>, <<67835, 67867>>, <<67871, 67897>>, <<67903, 67903>>, <<67968, 68023>>,
     <<68028, 68047>>, <<68050, 68099>>, <<68101, 68102>>, <<68108, 68115>>, <<68117, 68119>>,
     <<68121, 68149>>, <<68152, 68154>>, <<68159, 68168>>, <<68176, 68184>>, <<68192, 68255>>,
     <<68288, 68326>>, <<68331, 68342>>, <<68352, 68405>>, <<68409, 68437>>, <<68440, 68466>>,
     <<68472, 68497>>, <<68505, 68508>>, <<68521, 68527>>, <<68608, 68680>>, <<68736, 68786>>,
     <<68800, 68850>>, <<68858, 68903>>, <<68912, 68921>>, <<69216, 69246>>, <<69248, 69289>>,
     <<69291, 69293>>, <<69296, 69297>>, <<69373, 69415>>, <<69424, 69465>>, <<69488, 69513>>,
     <<69552, 69579>>, <<69600, 69622>>, <<69632, 69709>>, <<69714, 69749>>, <<69759, 69820>>,
     <<69822, 69826>>, <<69840, 69864>>, <<69872, 69881>>, <<69888, 69940>>, <<69942, 69959>>,
     <<69968, 70006>>, <<70016, 70111>>, <<70113, 70132>>, <<70144, 70161>>, <<70163, 70209>>,
     <<70272, 70278>>, <<70280, 70280>>, <<70282, 70285>>, <<70287, 70301>>, <<70303, 70313>>,
     <<70320, 70378>>, <<70384, 70393>>, <<70400, 70403>>, <<70405, 70412>>, <<70415, 70416>>,
     <<70419, 70440>>, <<70442, 70448>>, <<70450, 70451>>, <<70453, 70457>>, <<70459, 70468>>,
     <<70471, 70472>>, <<70475, 70477>>, <<70480, 70480>>, <<70487, 70487>>, <<70493, 70499>>,
     <<70502, 70508>>, <<70512, 70516>>, <<70656, 70747>>, <<70749, 70753>>, <<70784, 70855>>,
     <<70864, 70873>>, <<71040, 71093>>, <<71096, 71133>>, <<71168, 71236>>, <<71248, 71257>>,
     <<71264, 71276>>, <<71296, 71353>>, <<71360, 71369>>, <<71424, 71450>>, <<71453, 71467>>,
     <<71472, 71494>>, <<71680, 71739>>, <<71840, 71922>>, <<71935, 71942>>, <<71945, 71945>>,
     <<71948, 71955>>, <<71957, 71958>>, <<71960, 71989>>, <<71991, 71992>>, <<71995, 72006>>,
     <<72016, 72025>>, <<72096, 72103>>, <<72106, 72151>>, <<72154, 72164>>, <<72192, 72263>>,
     <<72272, 72354>>, <<72368, 72440>>, <<72448, 72457>>, <<72704, 72712>>, <<72714, 72758>>,
     <<72760, 72773>>, <<72784, 72812>>, <<72816, 72847>>, <<72850, 72871>>, <<72873, 72886>>,
     <<72960, 72966>>, <<72968, 72969>>, <<72971, 73014>>, <<73018, 73018>>, <<73020, 73021>>,
     <<73023, 73031>>, <<73040, 73049>>, <<73056, 73061>>, <<73063, 73064>>, <<73066, 73102>>,
     <<73104, 73105>>, <<73107, 73112>>, <<73120, 73129>>, <<73440, 73464>>, <<73472, 73488>>,
     <<73490, 73530>>, <<73534, 73561>>, <<73648, 73648>>, <<73664, 73713>>, <<73727, 74649>>,
     <<74752, 74862>>, <<74864, 74868>>, <<74880, 75075>>, <<77712, 77810>>, <<77824, 78895>>,
     <<78912, 78933>>, <<82944, 83526>>, <<92160, 92728>>, <<92736, 92766>>, <<92768, 92777>>,
     <<92782, 92862>>, <<92864, 92873>>, <<92880, 92909>>, <<92912, 92917>>, <<92928, 92997>>,
     <<93008, 93017>>, <<93019, 93025>>, <<93027, 93047>>, <<93053, 93071>>, <<93760, 93850>>,
     <<93952, 94026>>, <<94031, 94087>>, <<94095, 94111>>, <<94176, 94180>>, <<94192, 94193>>,
     <<94208, 100343>>, <<100352, 101589>>, <<101632, 101640>>, <<110576, 110579>>,
     <<110581, 110587>>, <<110589, 110590>>, <<110592, 110882>>, <<110898, 110898>>,
     <<110928, 110930>>, <<110933, 110933>>, <<110948, 110951>>, <<110960, 111355>>,
     <<113664, 113770>>, <<113776, 113788>>, <<113792, 113800>>, <<113808, 113817>>,
     <<113820, 113823>>, <<118528, 118573>>, <<118576, 118598>>, <<118608, 118723>>,
     <<118784, 119029>>, <<119040, 119078>>, <<119081, 119154>>, <<119163, 119274>>,
     <<119296, 119365>>, <<119488, 119507>>, <<119520, 119539>>, <<119552, 119638>>,
     <<119648, 119672>>, <<119808, 119892>>, <<119894, 119964>>, <<119966, 119967>>,
     <<119970, 119970>>, <<119973, 119974>>, <<119977, 119980>>, <<119982, 119993>>,
     <<119995, 119995>>, <<119997, 120003>>, <<120005, 120069>>, <<120071, 120074>>,
     <<120077, 120084>>, <<120086, 120092>>, <<120094, 120121>>, <<120123, 120126>>,
     <<120128, 120132>>, <<120134, 120134>>, <<120138, 120144>>, <<120146, 120485>>,
     <<120488, 120779>>, <<120782, 121483>>, <<121499, 121503>>, <<121505, 121519>>,
     <<122624, 122654>>, <<122661, 122666>>, <<122880, 122886>>, <<122888, 122904>>,
     <<122907, 122913>>, <<122915, 122916>>, <<122918, 122922>>, <<122928, 122989>>,
     <<123023, 123023>>, <<123136, 123180>>, <<123184, 123197>>, <<123200, 123209>>,
     <<123214, 123215>>, <<123536, 123566>>, <<123584, 123641>>, <<123647, 123647>>,
     <<124112, 124153>>, <<124896, 124902>>, <<124904, 124907>>, <<124909, 124910>>,
     <<124912, 124926>>, <<124928, 125124>>, <<125127, 125142>>, <<125184, 125259>>,
     <<125264, 125273>>, <<125278, 125279>>, <<126065, 126132>>, <<126209, 126269>>,
     <<126464, 126467>>, <<126469, 126495>>, <<126497, 126498>>, <<126500, 126500>>,
     <<126503, 126503>>, <<126505, 126514>>, <<126516, 126519>>, <<126521, 126521>>,
     <<126523, 126523>>, <<126530, 126530>>, <<126535, 126535>>, <<126537, 126537>>,
     <<126539, 126539>>, <<126541, 126543>>, <<126545, 126546>>, <<126548, 126548>>,
     <<126551, 126551>>, <<126553, 126553>>, <<126555, 126555>>, <<126557, 126557>>,
     <<126559, 126559>>, <<126561, 126562>>, <<126564, 126564>>, <<126567, 126570>>,
     <<126572, 126578>>, <<126580, 126583>>, <<126585, 126588>>, <<126590, 126590>>,
     <<126592, 126601>>, <<126603, 126619>>, <<126625, 126627>>, <<126629, 126633>>,
     <<126635, 126651>>, <<126704, 126705>>, <<126976, 127019>>, <<127024, 127123>>,
     <<127136, 127150>>, <<127153, 127167>>, <<127169, 127183>>, <<127185, 127221>>,
     <<127232, 127405>>, <<127462, 127490>>, <<127504, 127547>>, <<127552, 127560>>,
     <<127568, 127569>>, <<127584, 127589>>, <<127744, 128727>>, <<128732, 128748>>,
     <<128752, 128764>>, <<128768, 128886>>, <<128891, 128985>>, <<128992, 129003>>,
     <<129008, 129008>>, <<129024, 129035>>, <<129040, 129095>>, <<129104, 129113>>,
     <<129120, 129159>>, <<129168, 129197>>, <<129200, 129201>>, <<129280, 129619>>,
     <<129632, 129645>>, <<129648, 129660>>, <<129664, 129672>>, <<129680, 129725>>,
     <<129727, 129733>>, <<129742, 129755>>, <<129760, 129768>>, <<129776, 129784>>,
     <<129792, 129938>>, <<129940, 129994>>, <<130032, 130041>>, <<131072, 173791>>,
     <<173824, 177977>>, <<177984, 178205>>, <<178208, 183969>>, <<183984, 191456>>,
     <<194560, 195101>>, <<196608, 201546>>, <<201552, 205743>>, <<917760, 917999>>}

\* strconv.IsPrint
IsPrint(n) == \E r \in PrintRanges : r[1] <= n /\ n <= r[2]

\* strconv.appendEscapedRune with the double quote as the quote character
EscapedRune(c, n, ASCIIonly) ==
    IF c = "\"" \/ c = "\\" THEN <<"\\", c>>
    ELSE IF IsPrint(n) /\ (~ASCIIonly \/ n < 128) THEN <<c>>
    ELSE CASE n = 7 -> <<"\\", "a">>
           [] n = 8 -> <<"\\", "b">>
           [] n = 12 -> <<"\\", "f">>
           [] n = 10 -> <<"\\", "n">>
           [] n = 13 -> <<"\\", "r">>
           [] n = 9 -> <<"\\", "t">>
           [] n = 11 -> <<"\\", "v">>
           [] OTHER -> IF n < 32 \/ n = 127 THEN <<"\\", "x">> \o HexLower(n, 2)
                       ELSE IF n < 65536 THEN <<"\\", "u">> \o HexLower(n, 4)
                       ELSE <<"\\", "U">> \o HexLower(n, 8)

RECURSIVE EscapedRunes(_, _)
EscapedRunes(str, ASCIIonly) ==
    IF str = Empty THEN Empty
    ELSE OneOf({EscapedRune(Head(str), n, ASCIIonly) : n \in {Ord(Head(str))}})
         \o EscapedRunes(Tail(str), ASCIIonly)

\* strconv.Quote, strconv.QuoteToASCII
QuoteWith(str, ASCIIonly) == <<"\"">> \o EscapedRunes(str, ASCIIonly) \o <<"\"">>

\* strconv.CanBackquote: no control character but the tab, no backtick, no
\* DEL, no U+FEFF
CanBackquote(str) ==
    \A k \in 1..Len(str) :
        /\ str[k] # BT
        /\ str[k] \notin (ControlChars \ {"\t"})
        /\ str[k] \notin {Chr(127), Chr(65279)}

\* fmtQ
FmtQ(str, fl) ==
    OneOf({IF fl.sharp /\ CanBackquote(t) THEN Pad(<<BT>> \o t \o <<BT>>, fl)
           ELSE Pad(QuoteWith(t, fl.plus), fl) : t \in {Truncate(str, fl)}})

\* the operand under the verb v: Go syntax when the sharp flag was given
FmtV(arg, fl) == IF fl.sharpV THEN FmtQ(arg, fl) ELSE FmtS(arg, fl)

\* badVerb: %!verb(string=arg), the operand printed under the flags in force
BadVerb(verb, arg, fl) ==
    <<"%", "!", verb, "(", "s", "t", "r", "i", "n", "g", "=">> \o FmtV(arg, fl) \o <<")">>

\* printArg for a string operand: T is the type's name, s v q x X print the
\* string, every other verb (p included) is a bad verb
PrintArg(arg, verb, fl) ==
    CASE verb = "T" -> FmtS(<<"s", "t", "r", "i", "n", "g">>, fl)
      [] verb = "v" -> FmtV(arg, fl)
      [] verb = "s" -> FmtS(arg, fl)
      [] verb = "x" -> FmtSbx(arg, fl, LowerHex \o <<"x">>)
      [] verb = "X" -> FmtSbx(arg, fl, UpperHex \o <<"X">>)
      [] verb = "q" -> FmtQ(arg, fl)
      [] OTHER -> BadVerb(verb, arg, fl)

\* %!verb(MISSING)
MissingArg(verb) == <<"%", "!", verb, "(", "M", "I", "S", "S", "I", "N", "G", ")">>

\* %!verb(BADINDEX)
BadArgNum(verb) == <<"%", "!", verb, "(", "B", "A", "D", "I", "N", "D", "E", "X", ")">>

NoVerb == <<"%", "!", "(", "N", "O", "V", "E", "R", "B", ")">>

BadWidth == <<"%", "!", "(", "B", "A", "D", "W", "I", "D", "T", "H", ")">>

BadPrec == <<"%", "!", "(", "B", "A", "D", "P", "R", "E", "C", ")">>

\* %!(EXTRA string=arg)
ExtraArg(arg) ==
    <<"%", "!", "(", "E", "X", "T", "R", "A", " ", "s", "t", "r", "i", "n", "g", "=">>
        \o arg \o <<")">>

\* the operands of the call: one
NumArgs == 1

\* tooLarge
TooLarge(x) == x > 1000 * 1000

\* parsenum(s, start, end): the decimal number at index start, read up to
\* index end - 1; [num, isnum, newi]
RECURSIVE ParseNumFrom(_, _, _, _, _)
ParseNumFrom(s, i, end, num, isnum) ==
    IF i < end /\ s[i] \in Digits
    THEN IF TooLarge(num) THEN [num |-> 0, isnum |-> FALSE, newi |-> end]
         ELSE ParseNumFrom(s, i + 1, end, num * 10 + HexVal(s[i]), TRUE)
    ELSE [num |-> num, isnum |-> isnum, newi |-> i]

ParseNum(s, start, end) ==
    IF start >= end THEN [num |-> 0, isnum |-> FALSE, newi |-> end]
    ELSE ParseNumFrom(s, start, end, 0, FALSE)

\* the index of the first closing bracket of f after index i, 0 for none
RECURSIVE ClosingBracket(_, _)
ClosingBracket(f, j) ==
    IF j > Len(f) THEN 0 ELSE IF f[j] = "]" THEN j ELSE ClosingBracket(f, j + 1)

\* parseArgNumber on f[i..], where f[i] is the opening bracket:
\* [index, wid, ok], wid being the number of characters to skip
ParseArgNumber(f, i) ==
    IF Len(f) - i + 1 < 3 THEN [index |-> 0, wid |-> 1, ok |-> FALSE]
    ELSE OneOf({IF j = 0 THEN [index |-> 0, wid |-> 1, ok |-> FALSE]
                ELSE OneOf({IF ~n.isnum \/ n.newi # j
                            THEN [index |-> 0, wid |-> j - i + 1, ok |-> FALSE]
                            ELSE [index |-> n.num - 1, wid |-> j - i + 1, ok |-> TRUE] :
                                n \in {ParseNum(f, i + 1, j)}}) :
                    j \in {ClosingBracket(f, i + 1)}})

\* argNumber: an explicit argument index [n] at index d.i, if there is one
ArgNumber(f, d) ==
    IF d.i > Len(f) \/ f[d.i] # "[" THEN [d EXCEPT !.afterIndex = FALSE]
    ELSE OneOf({IF a.ok /\ 0 <= a.index /\ a.index < NumArgs
                THEN [d EXCEPT !.reordered = TRUE, !.argNum = a.index,
                               !.i = d.i + a.wid, !.afterIndex = TRUE]
                ELSE [d EXCEPT !.reordered = TRUE, !.good = FALSE,
                               !.i = d.i + a.wid, !.afterIndex = a.ok] :
                    a \in {ParseArgNumber(f, d.i)}})

\* the flags at index d.i
RECURSIVE ParseFlags(_, _)
ParseFlags(f, d) ==
    IF d.i > Len(f) THEN d
    ELSE CASE f[d.i] = "#" -> ParseFlags(f, [d EXCEPT !.i = @ + 1, !.fl.sharp = TRUE])
           [] f[d.i] = "0" -> ParseFlags(f, [d EXCEPT !.i = @ + 1, !.fl.zero = TRUE])
           [] f[d.i] = "+" -> ParseFlags(f, [d EXCEPT !.i = @ + 1, !.fl.plus = TRUE])
           [] f[d.i] = "-" -> ParseFlags(f, [d EXCEPT !.i = @ + 1, !.fl.minus = TRUE])
           [] f[d.i] = " " -> ParseFlags(f, [d EXCEPT !.i = @ + 1, !.fl.space = TRUE])
           [] OTHER -> d

\* intFromArg for a star: the operand, if one is left, is taken; it is a
\* string, not an int, so no number comes of it
IntFromArg(d) == IF d.argNum < NumArgs THEN [d EXCEPT !.argNum = @ + 1] ELSE d

\* the width: a star or a number
Width(f, d) ==
    IF d.i <= Len(f) /\ f[d.i] = "*"
    THEN [IntFromArg(d) EXCEPT !.i = d.i + 1, !.out = d.out \o BadWidth,
                               !.afterIndex = FALSE]
    ELSE OneOf({[d EXCEPT !.i = n.newi, !.fl.wid = n.num, !.fl.widPresent = n.isnum,
                          !.good = d.good /\ ~(d.afterIndex /\ n.isnum)] :
                    n \in {ParseNum(f, d.i, Len(f) + 1)}})

\* after the period of a precision: an argument index, then a star or a number
PrecisionValue(f, d) ==
    IF d.i <= Len(f) /\ f[d.i] = "*"
    THEN [IntFromArg(d) EXCEPT !.i = d.i + 1, !.out = d.out \o BadPrec,
                               !.afterIndex = FALSE]
    ELSE OneOf({[d EXCEPT !.i = n.newi, !.fl.prec = n.num, !.fl.precPresent = TRUE] :
                    n \in {ParseNum(f, d.i, Len(f) + 1)}})

\* the precision, if a period follows
Precision(f, d) ==
    IF d.i <= Len(f) /\ f[d.i] = "."
    THEN OneOf({PrecisionValue(f, e) :
                    e \in {ArgNumber(f, [d EXCEPT !.i = @ + 1,
                                                  !.good = d.good /\ ~d.afterIndex])}})
    ELSE d

\* a last chance for an argument index, right before the verb
VerbIndex(f, d) == IF ~d.afterIndex THEN ArgNumber(f, d) ELSE d

\* One directive up to its verb, from the index after the percent sign.
Directive(f, d) ==
    OneOf({OneOf({OneOf({OneOf({VerbIndex(f, d4) : d4 \in {Precision(f, d3)}}) :
                             d3 \in {Width(f, d2)}}) :
                      d2 \in {ArgNumber(f, d1)}}) :
               d1 \in {ParseFlags(f, d)}})

\* the flags as the verbs v and w rearrange them
VerbFlags(verb, fl) ==
    IF verb \in {"v", "w"}
    THEN [fl EXCEPT !.sharpV = fl.sharp, !.sharp = FALSE, !.plus = FALSE]
    ELSE fl

\* The verb at index d.i and what it prints.
Verb(f, arg, d) ==
    OneOf({CASE verb = "%" -> [d EXCEPT !.i = @ + 1, !.out = @ \o <<"%">>]
             [] verb # "%" /\ ~d.good ->
                    [d EXCEPT !.i = @ + 1, !.out = @ \o BadArgNum(verb)]
             [] verb # "%" /\ d.good /\ d.argNum >= NumArgs ->
                    [d EXCEPT !.i = @ + 1, !.out = @ \o MissingArg(verb)]
             [] OTHER ->
                    [d EXCEPT !.i = @ + 1, !.argNum = @ + 1,
                              !.out = @ \o PrintArg(arg, verb, VerbFlags(verb, d.fl))] :
               verb \in {f[d.i]}})

\* doPrintf from index d.i of the format
RECURSIVE DoPrintf(_, _, _)
DoPrintf(f, arg, d) ==
    IF d.i > Len(f) THEN d
    ELSE IF f[d.i] # "%"
         THEN DoPrintf(f, arg, [d EXCEPT !.i = @ + 1, !.out = Append(@, f[d.i])])
    ELSE OneOf({IF e.i > Len(f) THEN [e EXCEPT !.out = @ \o NoVerb]
                ELSE OneOf({DoPrintf(f, arg, v) : v \in {Verb(f, arg, e)}}) :
                    e \in {Directive(f, [d EXCEPT !.i = @ + 1, !.good = TRUE,
                                                  !.afterIndex = FALSE,
                                                  !.fl = NoFlags])}})

\* fmt.Sprintf(format, arg): the formatted text, then the operand as EXTRA
\* when no directive took it and none carried an argument index.
Sprintf(format, arg) ==
    OneOf({IF ~d.reordered /\ d.argNum < NumArgs THEN d.out \o ExtraArg(arg)
           ELSE d.out :
               d \in {DoPrintf(format, arg,
                               [i |-> 1, argNum |-> 0, reordered |-> FALSE, good |-> TRUE,
                                afterIndex |-> FALSE, fl |-> NoFlags, out |-> Empty])}})

supportsSystemPromptAll(p) == TRUE

\* The supportsSystemPrompt table (lines 35-40); a name that is not a key
\* reads as false.
supportsSystemPrompt(p) == p \in {"openai", "anthropic", "ollama", "cohere"}

System == "system"

Human == "human"

\* llms.TextParts(role, text)
TextParts(role, text) == [role |-> role, text |-> text]

InitMsg ==
    /\ msgPc = "idle"
    /\ msgProvider = ""
    /\ systemPrompt = Empty
    /\ userPrompt = Empty
    /\ messages = << >>
    /\ msgErr = "nil"

\* Line 98 for the prompts and the requests tried: the user prompt formatted
\* with the trimmed request dump.
FormattedPrompt ==
    [up \in UserPrompts, d \in Dumps |->
        IF d.ok THEN Sprintf(up, TrimSpace(d.text)) ELSE Empty]

\* CreateMessageContent(r, cfg, provider): lines 92-111.
CreateMessageContent ==
    /\ \E up \in UserPrompts, d \in Dumps :
           IF ~d.ok
           THEN /\ \E p \in MsgProviders, sp \in SystemPrompts :
                       /\ msgProvider' = p
                       /\ systemPrompt' = sp
                /\ messages' = << >>
                /\ msgErr' = "dump error"
                /\ userPrompt' = Empty
           ELSE \E formatted \in {FormattedPrompt[up, d]} :
                    /\ userPrompt' = formatted
                    /\ msgErr' = "nil"
                    /\ \E p \in MsgProviders, sp \in SystemPrompts :
                           /\ msgProvider' = p
                           /\ systemPrompt' = sp
                           /\ messages' =
                                  IF supportsSystemPrompt(p)
                                  THEN <<TextParts(System, sp), TextParts(Human, formatted)>>
                                  ELSE <<TextParts(Human, sp \o <<"\n">> \o formatted)>>
    /\ msgPc' = "done"
    /\ UNCHANGED <<genVars, newVars>>

\* ------------------------------------------------------- specifications

Init == InitGen /\ InitNew /\ InitMsg

Next ==
    \/ Invoke
    \/ CtxCancel
    \/ BackendRespond
    \/ BackendFail
    \/ BackendAbort
    \/ Finish

\* calls of GenerateLLMResponse
Spec == Init /\ [][Next]_vars

\* the return of a call whose invocation the context ended
FinishAborted == aborted /\ Finish

\* The calling goroutine runs on once GenerateContent has returned: nothing
\* in lines 70-88 blocks.  Fairness is stated for the aborted calls only: no
\* more is needed, and nothing makes a client return.
FairSpec == Spec /\ WF_vars(FinishAborted)

NextNew == New

\* calls of New
SpecNew == Init /\ [][NextNew]_vars

NextMsg == CreateMessageContent

\* calls of CreateMessageContent
SpecMsg == Init /\ [][NextMsg]_vars

\* ------------------------------------------------------------- claims

\* GenerateLLMResponse has returned after cleaning and validating
Cleaned == pc = "done" /\ called # << >>

\* the content of the first choice
Raw == response.Choices[1]

NoFenceIn(s) == \A i \in 1..Len(s) : ~HasPrefixAt(s, i, Fence)

IsTrimmed(s) == s = Empty \/ (~IsSpace(s[1]) /\ ~IsSpace(s[Len(s)]))

Ticks(p) == [k \in 1..p |-> BT]

\* s from index i with every third backtick of a run dropped together with
\* the two before it; p backticks of the current run are pending.
RECURSIVE DropTriples(_, _, _)
DropTriples(s, i, p) ==
    IF i > Len(s) THEN Ticks(p)
    ELSE IF s[i] = BT THEN (IF p = 2 THEN DropTriples(s, i + 1, 0)
                            ELSE DropTriples(s, i + 1, p + 1))
    ELSE Ticks(p) \o <<s[i]>> \o DropTriples(s, i + 1, 0)

StripLeadingTag(s) == IF HasPrefixAt(s, 1, Fence \o JsonTag) THEN Drop(s, 7) ELSE s

StripLeadingFence(s) ==
    IF HasPrefixAt(s, 1, Fence \o JsonTag) THEN Drop(s, 7)
    ELSE IF HasPrefixAt(s, 1, Fence) THEN Drop(s, 3)
    ELSE s

StripTrailingFence(s) ==
    IF Len(s) >= 3 /\ HasPrefixAt(s, Len(s) - 2, Fence) THEN SubSeq(s, 1, Len(s) - 3) ELSE s

\* the cleaning C1 describes: only the fence at the start and the fence at the
\* end (before trailing whitespace) go, the interior is kept
OuterFencesOnly(raw) == TrimSpace(StripTrailingFence(TrimRight(StripLeadingFence(raw))))

FencedGoodDoc == Fence \o JsonTag \o <<"\n">> \o GoodDoc \o <<"\n">> \o Fence

InteriorFenceDoc == Doc(HdrAB, Str(<<"a">> \o Fence \o <<"b">>))

\* C1 as stated: the cleaned string is the raw text without its leading fence
\* marker and its trailing fence marker, trimmed; every other character,
\* interior triple backticks included, is preserved.
C1_Original == Cleaned => result = OuterFencesOnly(Raw)

\* C1 amended: cleaning deletes a fence with its json tag at the very start
\* and, left to right, every other triple backtick wherever it stands, then
\* trims surrounding whitespace; all other characters are kept in order, so the
\* cleaned string holds no triple backtick, and a json-fenced document without
\* backticks is cleaned to exactly that document.
C1_Amended ==
    Cleaned =>
        /\ result = TrimSpace(DropTriples(StripLeadingTag(Raw), 1, 0))
        /\ NoFenceIn(result)
        /\ IsTrimmed(result)
        /\ (Raw = FencedGoodDoc => result = GoodDoc)

C1_Witness ==
    /\ Cleaned
    /\ Raw = InteriorFenceDoc
    /\ result = Doc(HdrAB, Str(<<"a", "b">>))

\* the document has a member for the field whose value has type t
HasField(val, name, t) ==
    /\ val.t = "obj"
    /\ \E i \in 1..Len(val.members) :
           FieldMatches(val.members[i].k, name) /\ val.members[i].v.t = t

HasNonEmptyString(val, name) ==
    /\ val.t = "obj"
    /\ \E i \in 1..Len(val.members) :
           /\ FieldMatches(val.members[i].k, name)
           /\ val.members[i].v.t = "str"
           /\ val.members[i].v.s # Empty

EmptyHeadersDoc == Doc(<<"{", "}">>, Str(<<"x">>))

EmptyBodyDoc == Doc(HdrAB, Str(Empty))

NoBodyDoc == Doc(HdrAB, <<"absent">>)

NotJSON == <<"n", "o", "t", " ", "j", "s", "o", "n">>

HeadersOnlyDoc == Doc(<<"{", "}">>, <<"absent">>)

\* C5: a call that fails at the validation step returns a non-nil error with
\* the cleaned string, cleanResponse of the first choice's content; raw text
\* {"headers":{}} yields an InvalidJSONResponse error and that same string.
C5_CleanedStringReturned ==
    /\ (pc = "done" /\ err.kind = "invalidJSONResponse")
           => /\ result = cleanResponse(Raw)
              /\ called = <<"cleanResponse", "ValidateJSON">>
    /\ (Cleaned /\ ValidateJSON(cleanResponse(Raw)) # "nil")
           => err.kind = "invalidJSONResponse"
    /\ (Cleaned /\ Raw = HeadersOnlyDoc)
           => result = HeadersOnlyDoc /\ err = InvalidJSONResponse(ErrValidation)

C5_Witness ==
    /\ Cleaned
    /\ Raw = Fence \o JsonTag \o <<"\n">> \o HeadersOnlyDoc \o <<"\n">> \o Fence
    /\ result = HeadersOnlyDoc
    /\ err = InvalidJSONResponse(ErrValidation)

\* C6: after a successful invocation only the first choice is inspected; a
\* nil response, a response without choices and an empty first content give
\* three different emptyLLMResponse errors, checked in this order, each with
\* an empty string and without cleaning or validation.
C6_EmptyResponses ==
    (pc = "done" /\ merr = "nil") =>
        /\ response.isNil
               => /\ err = EmptyLLMResponse("response is nil")
                  /\ result = Empty /\ called = << >>
        /\ (~response.isNil /\ Len(response.Choices) = 0)
               => /\ err = EmptyLLMResponse("no choices available")
                  /\ result = Empty /\ called = << >>
        /\ (~response.isNil /\ Len(response.Choices) > 0 /\ Raw = Empty)
               => /\ err = EmptyLLMResponse("content of first choice is empty")
                  /\ result = Empty /\ called = << >>
        /\ (~response.isNil /\ Len(response.Choices) > 0 /\ Raw # Empty)
               => err.kind # "emptyLLMResponse" /\ called # << >>

C6_Witness ==
    /\ pc = "done"
    /\ merr = "nil"
    /\ response.Choices = <<Empty, GoodDoc>>
    /\ err = EmptyLLMResponse("content of first choice is empty")
    /\ result = Empty

\* C9: every call of GenerateLLMResponse invokes GenerateContent exactly
\* once, whatever the outcome.
C9_SingleInvocation ==
    /\ invocations <= calls
    /\ pc \in {"inflight", "returned", "done"} => invocations = calls

C9_Witness ==
    /\ pc = "done"
    /\ err = ContentGenerationError("connection refused")
    /\ calls = 2
    /\ invocations = 2

\* C10 as stated: a call whose context is done before the backend has
\* responded returns the context's error, wrapped, with an empty string.
C10_Original ==
    (pc = "done" /\ ctx # "active")
        => (result = Empty /\ err = ContentGenerationError(CtxError(ctx)))

\* C10 amended: GenerateLLMResponse hands its context to GenerateContent and
\* waits; when the client ends the invocation with the error of that done
\* context, the call goes on to return that error, wrapped as a
\* contentGenerationError, with an empty string, without cleaning or
\* validating anything, and never a success.
C10_Amended ==
    /\ [](aborted => (ctx # "active" /\ merr = CtxError(ctx)))
    /\ []((pc = "done" /\ aborted)
              => /\ result = Empty
                 /\ err = ContentGenerationError(CtxError(ctx))
                 /\ called = << >>)
    /\ ((pc = "returned" /\ aborted) ~> (pc = "done" /\ aborted))

C10_Witness ==
    /\ pc = "done"
    /\ aborted
    /\ ctx = "deadline"
    /\ result = Empty
    /\ err = ContentGenerationError("context deadline exceeded")

SupportedProviders ==
    {<<"openai", "initOpenAIClient">>, <<"googleai", "initGoogleAIClient">>,
     <<"gcp-vertex", "initVertexClient">>, <<"anthropic", "initAnthropicClient">>,
     <<"cohere", "initCohereClient">>, <<"ollama", "initOllamaClient">>}

\* C7: when the request serializes, CreateMessageContent returns
\* [System(systemPrompt), Human(userPrompt)] for openai, anthropic, ollama and
\* cohere, and one Human message systemPrompt + "\n" + userPrompt for every
\* other provider name; never zero or more than two messages, never a Human
\* message before a System message.
C7_Messages ==
    (msgPc = "done" /\ msgErr = "nil") =>
        /\ msgProvider \in {"openai", "anthropic", "ollama", "cohere"}
               => messages = <<[role |-> System, text |-> systemPrompt],
                               [role |-> Human, text |-> userPrompt]>>
        /\ msgProvider \notin {"openai", "anthropic", "ollama", "cohere"}
               => messages = <<[role |-> Human,
                                text |-> systemPrompt \o <<"\n">> \o userPrompt]>>
        /\ Len(messages) \in {1, 2}
        /\ \A i, j \in 1..Len(messages) :
               (messages[i].role = Human /\ messages[j].role = System) => j < i

C7_Witness ==
    /\ msgPc = "done" /\ msgErr = "nil" /\ msgProvider = "googleai"
    /\ systemPrompt = <<"s", "y", "s">>
    /\ userPrompt = <<"R", ":", " ", "G", "E", "T", " ", "/", " ", "H", "T", "T", "P", "/",
                      "1", ".", "1", "\r", "\n", "H", "o", "s", "t", ":", " ", "a", ".",
                      "i", "o">>
    /\ messages = <<[role |-> Human,
                     text |-> <<"s", "y", "s", "\n", "R", ":", " ", "G", "E", "T", " ",
                                "/", " ", "H", "T", "T", "P", "/", "1", ".", "1", "\r",
                                "\n", "H", "o", "s", "t", ":", " ", "a", ".", "i", "o">>]>>

\* C8: for each of the six supported names New invokes exactly the matching
\* initializer and returns its result; for every other name (the empty string
\* and case variants included) it returns a nil client with the error
\* "unsupported llm provider", invokes no initializer, makes no network call
\* and falls back to no default.
C8_Dispatch ==
    /\ [](newCalls > 0 =>
             /\ \A sp \in SupportedProviders :
                    provider = sp[1]
                        => /\ lastInits = <<sp[2]>>
                           /\ client = initReturned.client
                           /\ newErr = initReturned.err
                           /\ client # NilClient => client.by = sp[2]
             /\ provider \notin {sp[1] : sp \in SupportedProviders}
                    => /\ client = NilClient
                       /\ newErr = "unsupported llm provider"
                       /\ lastInits = << >>)
    /\ [][(newCalls' = newCalls + 1 /\ provider' \notin {sp[1] : sp \in SupportedProviders})
              => (initLog' = initLog /\ netCalls' = netCalls)]_vars

C8_Witness ==
    /\ newCalls = 2
    /\ provider = "OpenAI"
    /\ client = NilClient
    /\ newErr = "unsupported llm provider"
    /\ lastInits = << >>
    /\ initLog = <<"initVertexClient">>
    /\ netCalls = 1
====
